---- MODULE Spec2Model ----
(***************************************************************************)
(* Adapter demo: LegacyStudentDatabase (a vector of StudentRecord),        *)
(* StudentSystemAdapter (narrows double to float and forwards), and        *)
(* StudentManagementClient, driven either by main()'s fixed script or by   *)
(* an arbitrary caller of the client interface.                            *)
(*                                                                         *)
(* Numbers.  A positive normal double is [e, hi, lo]: its 53-bit           *)
(* significand is hi * 2^29 + lo (hi holds the top 24 bits, lo the low 29) *)
(* and its value is significand * 2^(e - 52).  A float is [e, m] with a    *)
(* 24-bit significand m and value m * 2^(e - 23).  Text is TLA+ strings.   *)
(***************************************************************************)
EXTENDS Integers, Sequences, FiniteSets, TLC

VARIABLES records, before, call, log, shown, nInserts, nRemoved, nErased, client, pc

vars == <<records, before, call, log, shown, nInserts, nRemoved, nErased, client, pc>>

(* ---------------------------- bounds ----------------------------------- *)

\* An arbitrary caller performs at most this many inserts.
MaxInserts == 3

(* ------------------------- numeric helpers ----------------------------- *)

RECURSIVE Pow2(_)
Pow2(n) == IF n = 0 THEN 1 ELSE 2 * Pow2(n - 1)

\* Width of a float significand (FLT_MANT_DIG) and of the bits a double has beyond it.
FloatBits == 24
ExtraBits == 29

\* static_cast<float>(gpa): round to nearest, ties to even, on the 29 dropped bits.
static_cast_float(gpa) ==
    LET half == Pow2(ExtraBits - 1)
        up   == (gpa.lo > half) \/ (gpa.lo = half /\ gpa.hi % 2 = 1)
        m    == IF up THEN gpa.hi + 1 ELSE gpa.hi
    IN  IF m = Pow2(FloatBits)
        THEN [e |-> gpa.e + 1, m |-> Pow2(FloatBits - 1)]
        ELSE [e |-> gpa.e, m |-> m]

\* std::to_string(int) for a non-negative int.
to_string_int(n) == ToString(n)

\* Number of digits "%f" prints after the decimal point.
FracDigits == 6

\* The first n decimal digits of r / 2^k (0 <= r < 2^k) as a number, with the remainder left.
RECURSIVE FracScaled(_, _, _, _)
FracScaled(r, k, n, acc) ==
    IF n = 0 THEN [digits |-> acc, rem |-> r]
    ELSE FracScaled((r * 10) % Pow2(k), k, n - 1, acc * 10 + ((r * 10) \div Pow2(k)))

RECURSIVE Pow10(_)
Pow10(n) == IF n = 0 THEN 1 ELSE 10 * Pow10(n - 1)

\* n written with exactly w decimal digits (leading zeros kept).
RECURSIVE ZeroPadded(_, _)
ZeroPadded(n, w) ==
    IF w = 0 THEN "" ELSE ZeroPadded(n \div 10, w - 1) \o ToString(n % 10)

\* std::to_string(float): "%f" of the exact float value, six decimals,
\* round to nearest with ties to even.  Defined for 1 <= 23 - e.
to_string_float(f) ==
    LET k      == (FloatBits - 1) - f.e
        ip     == f.m \div Pow2(k)
        fs     == FracScaled(f.m % Pow2(k), k, FracDigits, 0)
        n      == ip * Pow10(FracDigits) + fs.digits
        up     == (2 * fs.rem > Pow2(k)) \/ (2 * fs.rem = Pow2(k) /\ n % 2 = 1)
        r      == IF up THEN n + 1 ELSE n
    IN  to_string_int(r \div Pow10(FracDigits)) \o "." \o ZeroPadded(r % Pow10(FracDigits), FracDigits)

(* ---------------------- LegacyStudentDatabase -------------------------- *)

StudentRecord(studentId, fullName, academicScore) ==
    [studentId |-> studentId, fullName |-> fullName, academicScore |-> academicScore]

\* std::remove_if over the vector: the kept elements are moved to the front in
\* their order; `it` is the position just past them.  The elements from `it`
\* on are leftovers that the caller erases.
remove_if(recs, studentId) ==
    LET kept == SelectSeq(recs, LAMBDA r : r.studentId /= studentId)
    IN  [vec |-> kept \o SubSeq(recs, Len(kept) + 1, Len(recs)), it |-> Len(kept) + 1]

\* Variant: erases the single element at `it` (records.erase(it)).
erase_Single(vec, it) == SubSeq(vec, 1, it - 1) \o SubSeq(vec, it + 1, Len(vec))

\* records.erase(it, records.end())
erase(vec, it) == SubSeq(vec, 1, it - 1)

\* The console lines the legacy class writes.
AddedLine(studentId) == "Legacy system: Added student with ID " \o to_string_int(studentId)
RemovedLine(studentId) == "Legacy system: Removed student with ID " \o to_string_int(studentId)
UpdatedLine(studentId) == "Legacy system: Updated student with ID " \o to_string_int(studentId)
NotFoundLine(studentId) == "Legacy system: Student with ID " \o to_string_int(studentId) \o " not found"

\* Variant: an insert that overwrites an existing record with the same id.
insertStudentRecord_Upsert(recs, studentId, fullName, academicScore) ==
    [records |-> IF \E i \in 1..Len(recs) : recs[i].studentId = studentId
                 THEN [i \in 1..Len(recs) |->
                         IF recs[i].studentId = studentId
                         THEN StudentRecord(studentId, fullName, academicScore)
                         ELSE recs[i]]
                 ELSE Append(recs, StudentRecord(studentId, fullName, academicScore)),
     log     |-> AddedLine(studentId)]

insertStudentRecord(recs, studentId, fullName, academicScore) ==
    [records |-> Append(recs, StudentRecord(studentId, fullName, academicScore)),
     log     |-> AddedLine(studentId)]

\* Variant: std::find_if and erase of that one element.
deleteStudentRecord_FirstOnly(recs, studentId) ==
    IF \E i \in 1..Len(recs) : recs[i].studentId = studentId
    THEN LET f == CHOOSE i \in 1..Len(recs) :
                     /\ recs[i].studentId = studentId
                     /\ \A j \in 1..(i - 1) : recs[j].studentId /= studentId
         IN  [records |-> SubSeq(recs, 1, f - 1) \o SubSeq(recs, f + 1, Len(recs)),
              log     |-> RemovedLine(studentId)]
    ELSE [records |-> recs, log |-> NotFoundLine(studentId)]

\* Variant: the erase and the "Removed" line without the `it != end()` test.
deleteStudentRecord_NoCheck(recs, studentId) ==
    [records |-> SelectSeq(recs, LAMBDA r : r.studentId /= studentId),
     log     |-> RemovedLine(studentId)]

deleteStudentRecord(recs, studentId) ==
    LET rm == remove_if(recs, studentId)
    IN  IF rm.it /= Len(rm.vec) + 1
        THEN [records |-> erase(rm.vec, rm.it),
              log     |-> RemovedLine(studentId)]
        ELSE [records |-> rm.vec,
              log     |-> NotFoundLine(studentId)]

\* The range-for loop from position i: the first match is overwritten and the
\* function returns; falling off the end reports "not found".
RECURSIVE updateLoop(_, _, _, _, _)
updateLoop(recs, i, studentId, fullName, academicScore) ==
    IF i > Len(recs)
    THEN [records |-> recs,
          log     |-> NotFoundLine(studentId)]
    ELSE IF recs[i].studentId = studentId
         THEN [records |-> [recs EXCEPT ![i].fullName = fullName,
                                        ![i].academicScore = academicScore],
               log     |-> UpdatedLine(studentId)]
         ELSE updateLoop(recs, i + 1, studentId, fullName, academicScore)

\* Variant: the loop without its `return`, so every match is overwritten.
updateStudentRecord_AllMatches(recs, studentId, fullName, academicScore) ==
    [records |-> [i \in 1..Len(recs) |->
                    IF recs[i].studentId = studentId
                    THEN StudentRecord(studentId, fullName, academicScore)
                    ELSE recs[i]],
     log     |-> IF \E i \in 1..Len(recs) : recs[i].studentId = studentId
                 THEN UpdatedLine(studentId) ELSE NotFoundLine(studentId)]

\* Variant: an update that adds the record when the id is not there.
updateStudentRecord_Upsert(recs, studentId, fullName, academicScore) ==
    IF \E i \in 1..Len(recs) : recs[i].studentId = studentId
    THEN updateLoop(recs, 1, studentId, fullName, academicScore)
    ELSE [records |-> Append(recs, StudentRecord(studentId, fullName, academicScore)),
          log     |-> UpdatedLine(studentId)]

\* Variant: an update that erases the first match and appends the new record.
updateStudentRecord_MoveToEnd(recs, studentId, fullName, academicScore) ==
    IF \E i \in 1..Len(recs) : recs[i].studentId = studentId
    THEN LET f == CHOOSE i \in 1..Len(recs) :
                     /\ recs[i].studentId = studentId
                     /\ \A j \in 1..(i - 1) : recs[j].studentId /= studentId
         IN  [records |-> Append(SubSeq(recs, 1, f - 1) \o SubSeq(recs, f + 1, Len(recs)),
                                 StudentRecord(studentId, fullName, academicScore)),
              log     |-> UpdatedLine(studentId)]
    ELSE [records |-> recs, log |-> NotFoundLine(studentId)]

updateStudentRecord(recs, studentId, fullName, academicScore) ==
    updateLoop(recs, 1, studentId, fullName, academicScore)

\* Variant: records.capacity() of a vector that doubles as it grows.
getRecordCount_Capacity(recs) ==
    IF Len(recs) = 0 THEN 0
    ELSE CHOOSE c \in {1, 2, 4, 8, 16} : c >= Len(recs) /\ c < 2 * Len(recs)

getRecordCount(recs) == Len(recs)

RECURSIVE fetchLoop(_, _, _)
fetchLoop(recs, i, result) ==
    IF i > Len(recs) THEN result
    ELSE fetchLoop(recs, i + 1,
                   Append(result, "ID: " \o to_string_int(recs[i].studentId)
                                  \o ", Name: " \o recs[i].fullName
                                  \o ", Score: " \o to_string_float(recs[i].academicScore)))

\* Variant: the loop starting one element late.
fetchAllRecords_SkipFirst(recs) == fetchLoop(recs, 2, <<>>)

fetchAllRecords(recs) == fetchLoop(recs, 1, <<>>)

(* ----------------------- StudentSystemAdapter -------------------------- *)

addStudent(recs, id, name, gpa) ==
    insertStudentRecord(recs, id, name, static_cast_float(gpa))

removeStudent(recs, id) == deleteStudentRecord(recs, id)

\* Variant: the adapter forwarding an update to the legacy insert.
updateStudentDetails_Insert(recs, id, name, gpa) ==
    insertStudentRecord(recs, id, name, static_cast_float(gpa))

updateStudentDetails(recs, id, name, gpa) ==
    updateStudentRecord(recs, id, name, static_cast_float(gpa))

getAllStudentsInfo(recs) == fetchAllRecords(recs)

getTotalStudents(recs) == getRecordCount(recs)

(* ---------------------- StudentManagementClient ------------------------ *)

\* What displayAllStudents prints: the total, then one line per entry.
displayAllStudents(recs) ==
    [total |-> getTotalStudents(recs), students |-> getAllStudentsInfo(recs)]

\* Bookkeeping for the properties: how many records of recs carry the id.
Matches(recs, id) == Cardinality({i \in 1..Len(recs) : recs[i].studentId = id})

registerNewStudent(recs, id, name, gpa) == addStudent(recs, id, name, gpa)

NoCall == [op |-> "none"]
NoOutput == [total |-> -1, students |-> <<>>]

\* client.registerNewStudent(id, name, gpa)
RegisterCall(id, name, gpa) ==
    LET r == registerNewStudent(records, id, name, gpa)
    IN  /\ records' = r.records
        /\ log' = r.log
        /\ before' = records
        /\ call' = [op |-> "register", id |-> id, name |-> name, gpa |-> gpa]
        /\ shown' = NoOutput
        /\ nInserts' = nInserts + 1
        /\ UNCHANGED <<nRemoved, nErased>>

\* client.removeStudent(id)
RemoveCall(id) ==
    LET r == removeStudent(records, id)
    IN  /\ records' = r.records
        /\ log' = r.log
        /\ before' = records
        /\ call' = [op |-> "remove", id |-> id]
        /\ shown' = NoOutput
        /\ nRemoved' = IF r.log = RemovedLine(id) THEN nRemoved + 1 ELSE nRemoved
        /\ nErased' = nErased + Matches(records, id)
        /\ UNCHANGED nInserts

\* client.updateStudentDetails(id, name, gpa)
UpdateCall(id, name, gpa) ==
    LET r == updateStudentDetails(records, id, name, gpa)
    IN  /\ records' = r.records
        /\ log' = r.log
        /\ before' = records
        /\ call' = [op |-> "update", id |-> id, name |-> name, gpa |-> gpa]
        /\ shown' = NoOutput
        /\ UNCHANGED <<nInserts, nRemoved, nErased>>

\* client.displayAllStudents()
DisplayCall ==
    /\ shown' = displayAllStudents(records)
    /\ log' = ""
    /\ before' = records
    /\ call' = [op |-> "display"]
    /\ UNCHANGED <<records, nInserts, nRemoved, nErased>>

(* ------------------------------ main ----------------------------------- *)

\* The double literals of main.cpp.
Gpa375 == [e |-> 1, hi |-> 15728640, lo |-> 0]
Gpa392 == [e |-> 1, hi |-> 16441671, lo |-> 365072220]
Gpa345 == [e |-> 1, hi |-> 14470348, lo |-> 429496730]
Gpa385 == [e |-> 1, hi |-> 16148070, lo |-> 214748365]

Script ==
    << [op |-> "register", id |-> 1001, name |-> "John Smith", gpa |-> Gpa375],
       [op |-> "register", id |-> 1002, name |-> "Emily Johnson", gpa |-> Gpa392],
       [op |-> "register", id |-> 1003, name |-> "Michael Brown", gpa |-> Gpa345],
       [op |-> "display"],
       [op |-> "remove", id |-> 1002],
       [op |-> "display"],
       [op |-> "update", id |-> 1003, name |-> "Michael Brown Jr.", gpa |-> Gpa385],
       [op |-> "display"] >>

Perform(c) ==
    CASE c.op = "register" -> RegisterCall(c.id, c.name, c.gpa)
      [] c.op = "remove"   -> RemoveCall(c.id)
      [] c.op = "update"   -> UpdateCall(c.id, c.name, c.gpa)
      [] c.op = "display"  -> DisplayCall

\* One statement of main(), in program order.
main ==
    /\ client = "main"
    /\ pc <= Len(Script)
    /\ Perform(Script[pc])
    /\ pc' = pc + 1
    /\ UNCHANGED client

(* ------------------------ an arbitrary caller -------------------------- *)

Ids == {1, 2, 3}
\* Name and grade pairs the caller passes: 3.75 is exact in single precision,
\* 3.92 is rounded up when narrowed.
Details == {<<"Ann", Gpa375>>, <<"Bob", Gpa392>>}

Register ==
    /\ client = "any"
    /\ nInserts < MaxInserts
    /\ \E id \in Ids, d \in Details : RegisterCall(id, d[1], d[2])
    /\ UNCHANGED <<client, pc>>

Remove ==
    /\ client = "any"
    /\ \E id \in Ids : RemoveCall(id)
    /\ UNCHANGED <<client, pc>>

Update ==
    /\ client = "any"
    /\ \E id \in Ids, d \in Details : UpdateCall(id, d[1], d[2])
    /\ UNCHANGED <<client, pc>>

Display ==
    /\ client = "any"
    /\ DisplayCall
    /\ UNCHANGED <<client, pc>>

(* --------------------------- specification ----------------------------- *)

Init ==
    /\ records = <<>>
    /\ before = <<>>
    /\ call = NoCall
    /\ log = ""
    /\ shown = NoOutput
    /\ nInserts = 0
    /\ nRemoved = 0
    /\ nErased = 0
    /\ client \in {"main", "any"}
    /\ pc = 1

Next == main \/ Register \/ Remove \/ Update \/ Display

Spec == Init /\ [][Next]_vars

(* ---------------------------- properties ------------------------------ *)

IdsOf(recs) == [i \in 1..Len(recs) |-> recs[i].studentId]

\* The records of recs whose id is not id, in their order.
RECURSIVE Others(_, _)
Others(recs, id) ==
    IF recs = <<>> THEN <<>>
    ELSE IF Head(recs).studentId = id THEN Others(Tail(recs), id)
         ELSE <<Head(recs)>> \o Others(Tail(recs), id)

\* Position of the first record of recs carrying id (0 when there is none).
FirstMatch(recs, id) ==
    IF Matches(recs, id) = 0 THEN 0
    ELSE CHOOSE i \in 1..Len(recs) :
            /\ recs[i].studentId = id
            /\ \A j \in 1..(i - 1) : recs[j].studentId /= id

\* C1 as stated: the record count is the number of inserts minus the number
\* of deleteStudentRecord calls that reported "Removed".
C1_CountIsInsertsMinusRemovedCalls ==
    getRecordCount(records) = nInserts - nRemoved

\* C1 amended: the record count is the number of inserts minus the number of
\* records carrying the deleted id at each delete (one "Removed" call erases
\* all of them, at least one), so it is at most inserts minus "Removed" calls.
C1_CountIsInsertsMinusErased ==
    /\ getRecordCount(records) = nInserts - nErased
    /\ nRemoved <= nErased
    /\ getRecordCount(records) <= nInserts - nRemoved

C1_Witness ==
    /\ call.op = "remove"
    /\ Matches(before, call.id) = 2
    /\ nRemoved = 1
    /\ nErased = 2
    /\ getRecordCount(records) = 1

\* C2: after deleteStudentRecord(id) no record with that id remains, and the
\* records with other ids are all kept, unchanged and in the same order.
C2_DeleteRemovesAllMatches ==
    call.op = "remove" =>
        /\ Matches(records, call.id) = 0
        /\ records = Others(before, call.id)

C2_Witness ==
    /\ call.op = "remove"
    /\ Matches(before, call.id) >= 2
    /\ before[1].studentId = call.id
    /\ before[2].studentId /= call.id
    /\ Len(records) = 1

\* C3: updateStudentRecord changes only the first record carrying the id: it
\* gets the new name and the narrowed score; every other record is unchanged.
C3_UpdateOnlyFirstMatch ==
    (call.op = "update" /\ Matches(before, call.id) >= 1) =>
        LET f == FirstMatch(before, call.id)
        IN  /\ Len(records) = Len(before)
            /\ \A i \in 1..Len(before) :
                 IF i = f
                 THEN records[i] = [studentId     |-> call.id,
                                    fullName      |-> call.name,
                                    academicScore |-> static_cast_float(call.gpa)]
                 ELSE records[i] = before[i]

C3_Witness ==
    /\ call.op = "update"
    /\ Matches(before, call.id) >= 2
    /\ records /= before
    /\ \E i, j \in 1..Len(records) :
         /\ i < j
         /\ records[i].studentId = call.id
         /\ records[j].studentId = call.id
         /\ records[i].fullName = call.name
         /\ records[j].fullName /= call.name

\* C4: an insert with an id already in the store appends one new record and
\* leaves every existing record as it was; records with an id disappear only
\* through a delete of that id.
C4_DuplicateInsertAppends ==
    /\ call.op = "register" =>
         /\ getRecordCount(records) = getRecordCount(before) + 1
         /\ SubSeq(records, 1, Len(before)) = before
         /\ records[Len(records)].studentId = call.id
         /\ Matches(records, call.id) = Matches(before, call.id) + 1
    /\ \A id \in {before[i].studentId : i \in 1..Len(before)} :
         (call.op = "remove" /\ call.id = id) \/ Matches(records, id) >= Matches(before, id)

C4_Witness ==
    /\ call.op = "register"
    /\ Matches(before, call.id) >= 1
    /\ Matches(records, call.id) >= 2
    /\ records[1].studentId = call.id
    /\ records[1] /= records[Len(records)]

\* C5: deleteStudentRecord with an id no record carries (the empty store
\* included) leaves the records unchanged and writes "not found", not
\* "Removed"; "not found" is written only when no record matched.
C5_DeleteAbsentIsNoOp ==
    call.op = "remove" =>
        /\ Matches(before, call.id) = 0 =>
             /\ records = before
             /\ getRecordCount(records) = getRecordCount(before)
             /\ log = NotFoundLine(call.id)
             /\ log /= RemovedLine(call.id)
        /\ log = NotFoundLine(call.id) => Matches(before, call.id) = 0
        /\ log \in {NotFoundLine(call.id), RemovedLine(call.id)}

C5_Witness ==
    /\ call.op = "remove"
    /\ before /= <<>>
    /\ Matches(before, call.id) = 0
    /\ log = NotFoundLine(call.id)

\* C6: updateStudentRecord with an id no record carries leaves the records
\* unchanged and writes "not found"; it writes "Updated" exactly when a
\* record with the id exists.
C6_UpdateAbsentIsNoOp ==
    call.op = "update" =>
        /\ Matches(before, call.id) = 0 =>
             /\ records = before
             /\ log = NotFoundLine(call.id)
        /\ log = UpdatedLine(call.id) <=> Matches(before, call.id) >= 1
        /\ log \in {NotFoundLine(call.id), UpdatedLine(call.id)}

C6_Witness ==
    /\ call.op = "update"
    /\ before /= <<>>
    /\ Matches(before, call.id) = 0
    /\ log = NotFoundLine(call.id)

\* C7: updateStudentRecord leaves the sequence of studentId values as it was
\* (no id changed, no record added, removed or moved).
C7_UpdateKeepsIds ==
    call.op = "update" => IdsOf(records) = IdsOf(before)

C7_Witness ==
    /\ call.op = "update"
    /\ records /= before
    /\ Len(records) >= 2
    /\ records[1] = before[1]
    /\ IdsOf(records) = IdsOf(before)

\* C8: while no delete has removed anything and the inserted ids are pairwise
\* distinct, getRecordCount() is the number of inserts performed.
C8_DistinctInsertsCount ==
    (/\ nRemoved = 0
     /\ \A i, j \in 1..Len(records) : i /= j => records[i].studentId /= records[j].studentId)
    => getRecordCount(records) = nInserts

C8_Witness ==
    /\ client = "any"
    /\ nRemoved = 0
    /\ nInserts = 3
    /\ call.op = "register"
    /\ Cardinality({records[i].studentId : i \in 1..Len(records)}) = 3

John375 == "ID: 1001, Name: John Smith, Score: 3.750000"
Michael345 == "ID: 1003, Name: Michael Brown, Score: 3.450000"
MichaelJr385 == "ID: 1003, Name: Michael Brown Jr., Score: 3.850000"

\* C9: main()'s script: 3 students after the three adds; after removing 1002,
\* 2 students, listed as 1001 then 1003; after updating 1003 the list shows
\* its new name and score, 1001 as before, and the total is still 2.
C9_DemoScenario ==
    client = "main" =>
        /\ pc \in {4, 5} => getTotalStudents(records) = 3
        /\ pc = 5 => shown.total = 3 /\ Len(shown.students) = 3
        /\ pc \in {6, 7} =>
             /\ getTotalStudents(records) = 2
             /\ getAllStudentsInfo(records) = <<John375, Michael345>>
        /\ pc = 7 => shown = [total |-> 2, students |-> <<John375, Michael345>>]
        /\ pc \in {8, 9} =>
             /\ getTotalStudents(records) = 2
             /\ getAllStudentsInfo(records) = <<John375, MichaelJr385>>
        /\ pc = 9 => shown = [total |-> 2, students |-> <<John375, MichaelJr385>>]

C9_Witness ==
    /\ client = "main"
    /\ pc = 9
    /\ log = ""
    /\ shown.students = <<John375, MichaelJr385>>

\* C10: getAllStudentsInfo() has one entry per record, in storage order, made
\* of that record's id, name and score, so it is as long as
\* getTotalStudents(); displaying leaves the store unchanged.
C10_InfoMatchesRecords ==
    /\ Len(getAllStudentsInfo(records)) = getTotalStudents(records)
    /\ getTotalStudents(records) = Len(records)
    /\ call.op = "display" =>
         /\ records = before
         /\ shown.total = Len(records)
         /\ Len(shown.students) = Len(records)
         /\ \A i \in 1..Len(records) :
              shown.students[i] = "ID: " \o ToString(records[i].studentId)
                                  \o ", Name: " \o records[i].fullName
                                  \o ", Score: " \o to_string_float(records[i].academicScore)

C10_Witness ==
    /\ call.op = "display"
    /\ client = "any"
    /\ Len(shown.students) = 3
    /\ shown.students[1] = "ID: 2, Name: Bob, Score: 3.920000"
    /\ shown.students[2] = "ID: 1, Name: Ann, Score: 3.750000"
    /\ shown.students[3] /= shown.students[1]

====
